---- MODULE Spec2Model ----
(***************************************************************************)
(* Model of the keylol parser plugin: the resource id of a ParseResult     *)
(* (core/data.py), the retrying Downloader (core/download.py) and the      *)
(* plugin's registration, dispatch, delivery and shutdown (main.py,        *)
(* core/sender.py, core/render.py).                                        *)
(***************************************************************************)
EXTENDS Integers, Sequences, FiniteSets, TLC

(* ---------------- bounds of the model ---------------- *)
MaxContentsRid == 2
MaxRetries == 3
MaxChunks == 2

(* ---------------- Optional values and Python truthiness ---------------- *)
\* Optional[T]: None is the empty tuple, a value v is the one-element tuple <<v>>.
None == << >>

Some(v) == <<v>>

\* `if s:` for an Optional[str]: not None and not the empty string.
TruthyStr(o) == o # None /\ o[1] # ""

\* `if n:` for an Optional[int]: not None and not 0.
TruthyInt(o) == o # None /\ o[1] # 0

(* ======================================================================= *)
(* core/data.py: ParseResult.get_resource_id                               *)
(* ======================================================================= *)
VARIABLES pr, rid, rid_pc

ridVars == <<pr, rid, rid_pc>>

PlatformNames == {"keylol"}

Urls == {None, Some(""), Some("https://keylol.com/t1")}

Titles == {None, Some(""), Some("T")}

Timestamps == {None, Some(0), Some(1768650573)}

\* the values uuid.uuid4().hex can return (two stand for the 2^122)
UuidHex == {"0f", "a7"}

\* contents only matter through their number here
RidContents == UNION {[1..n -> {"c"}] : n \in 0..MaxContentsRid}

ParseResults == [platform : PlatformNames, url : Urls, title : Titles,
                 timestamp : Timestamps, contents : RidContents]

\* uuid is the value uuid.uuid4().hex returns if the fallback is reached
get_resource_id(r, uuid) ==
    IF TruthyStr(r.url) THEN r.platform \o ":" \o r.url[1]
    ELSE IF TruthyStr(r.title) THEN r.platform \o ":" \o r.title[1]
    ELSE IF TruthyInt(r.timestamp) THEN r.platform \o ":" \o ToString(r.timestamp[1])
    ELSE IF r.contents # << >> THEN r.platform \o ":" \o ToString(Len(r.contents))
    ELSE r.platform \o ":" \o uuid

RidInit ==
    /\ pr \in ParseResults
    /\ rid = ""
    /\ rid_pc = "new"

\* one call of get_resource_id() on the ParseResult
GetResourceId ==
    /\ rid_pc = "new"
    /\ \E uuid \in UuidHex : rid' = get_resource_id(pr, uuid)
    /\ rid_pc' = "called"
    /\ pr' = pr

RidIdle ==
    /\ pr = [platform |-> "keylol", url |-> None, title |-> None,
             timestamp |-> None, contents |-> << >>]
    /\ rid = ""
    /\ rid_pc = "unused"

(* ======================================================================= *)
(* core/download.py: Downloader                                            *)
(* ======================================================================= *)
VARIABLES
    dl_retries,    \* config.download_retry_times
    dl_session,    \* self.session: "none", "open" or "closed"
    dl_pc,         \* position of the download_file call
    dl_attempt,    \* the loop variable attempt
    dl_body,       \* chunks the current response still delivers
    dl_file,       \* the cache file: None if absent, else Some(size in chunks)
    dl_err,        \* the exception e caught by the last failed attempt
    dl_raised,     \* the exception type raised to the caller, "" if none
    dl_requests,   \* history: session.get calls made by this call
    dl_sleeps,     \* history: the asyncio.sleep durations of this call, in order
    dl_only_cl0,   \* history: every response of this call advertised Content-Length: 0
    dl_wrote       \* history: the largest size this call gave the cache file

dlVars == <<dl_retries, dl_session, dl_pc, dl_attempt, dl_body, dl_file, dl_err,
            dl_raised, dl_requests, dl_sleeps, dl_only_cl0, dl_wrote>>

\* HTTP statuses a response can carry
Statuses == {200, 404, 429}

\* values of the Content-Length header: absent, empty, "0", a positive size, garbage
ContentLengths == {None, Some(""), Some("0"), Some("2"), Some("x")}

\* int(s) for the header strings of the model; None stands for ValueError
int(s) == CASE s = "0" -> Some(0)
            [] s = "2" -> Some(2)
            [] OTHER -> None

Exc(type, status) == [type |-> type, status |-> status]

NoExc == Exc("", 0)

\* lines 74-76: the exception type the last attempt's exception e is turned into
\* variant: the 429 case is not told apart
MapExceptionMut(e) == "DownloadException"

MapException(e) ==
    IF e.type = "ClientResponseError" /\ e.status = 429
    THEN "DownloadLimitException"
    ELSE "DownloadException"

\* line 72: the backoff after failed attempt number attempt
\* variant: a constant backoff
BackoffMut(attempt) == 1

Backoff(attempt) == 1 + attempt

\* lines 70-76: the except block of one attempt that failed with e
ExceptHandler(e) ==
    /\ dl_err' = e
    /\ IF dl_attempt < dl_retries
       THEN /\ dl_pc' = "sleep"
            /\ dl_sleeps' = Append(dl_sleeps, Backoff(dl_attempt))
            /\ dl_raised' = dl_raised
       ELSE /\ dl_pc' = "raised"
            /\ dl_raised' = MapException(e)
            /\ dl_sleeps' = dl_sleeps

DlInit ==
    /\ dl_retries \in 0..MaxRetries
    /\ dl_session = "none"
    /\ dl_pc = "idle"
    /\ dl_attempt = 0
    /\ dl_body = 0
    /\ dl_file \in {None, Some(1)}
    /\ dl_err = NoExc
    /\ dl_raised = ""
    /\ dl_requests = 0
    /\ dl_sleeps = << >>
    /\ dl_only_cl0 = TRUE
    /\ dl_wrote = 0

\* the mutant keeps a closed session
get_sessionMut(session) == IF session = "none" THEN "open" ELSE session

\* lines 21-27: get_session creates a session when there is none or it is closed
get_session(session) == IF session = "none" \/ session = "closed" THEN "open" ELSE session

\* lines 37-48: download_file up to the first attempt
DlCall ==
    /\ dl_pc = "idle"
    /\ dl_session' = get_session(dl_session)
    /\ dl_pc' = "request"
    /\ dl_attempt' = 0
    /\ dl_err' = NoExc
    /\ dl_raised' = ""
    /\ dl_requests' = 0
    /\ dl_sleeps' = << >>
    /\ dl_only_cl0' = TRUE
    /\ dl_wrote' = 0
    /\ UNCHANGED <<dl_retries, dl_body, dl_file>>

\* lines 50-61: session.get, raise_for_status, the Content-Length check and open(cache_file, "wb")
DlRequest ==
    /\ dl_pc = "request"
    /\ dl_requests' = dl_requests + 1
    /\ UNCHANGED <<dl_retries, dl_session, dl_attempt>>
    /\ \/ \* the session was closed meanwhile: session.get raises
          /\ dl_session = "closed"
          /\ ExceptHandler(Exc("RuntimeError", 0))
          /\ dl_only_cl0' = FALSE
          /\ UNCHANGED <<dl_body, dl_file, dl_wrote>>
       \/ \* no response: connection error or timeout
          /\ dl_session = "open"
          /\ ExceptHandler(Exc("ClientError", 0))
          /\ dl_only_cl0' = FALSE
          /\ UNCHANGED <<dl_body, dl_file, dl_wrote>>
       \/ /\ dl_session = "open"
          /\ \E status \in Statuses, cl \in ContentLengths, body \in 0..MaxChunks, openOk \in BOOLEAN :
                /\ dl_only_cl0' = (dl_only_cl0 /\ cl = Some("0"))
                /\ IF status >= 400
                   THEN /\ ExceptHandler(Exc("ClientResponseError", status))
                        /\ UNCHANGED <<dl_body, dl_file, dl_wrote>>
                   ELSE IF TruthyStr(cl) /\ int(cl[1]) = None
                   THEN /\ ExceptHandler(Exc("ValueError", 0))
                        /\ UNCHANGED <<dl_body, dl_file, dl_wrote>>
                   ELSE IF TruthyStr(cl) /\ int(cl[1]) = Some(0)
                   THEN /\ ExceptHandler(Exc("ZeroSizeException", 0))
                        /\ UNCHANGED <<dl_body, dl_file, dl_wrote>>
                   ELSE IF ~openOk
                   THEN /\ ExceptHandler(Exc("OSError", 0))
                        /\ UNCHANGED <<dl_body, dl_file, dl_wrote>>
                   ELSE /\ dl_file' = Some(0)
                        /\ dl_body' = body
                        /\ dl_pc' = "body"
                        /\ UNCHANGED <<dl_err, dl_raised, dl_sleeps, dl_wrote>>

\* lines 62-63: one chunk of the response body is written to the cache file
DlChunk ==
    /\ dl_pc = "body"
    /\ dl_body > 0
    /\ dl_body' = dl_body - 1
    /\ dl_file' = Some(dl_file[1] + 1)
    /\ dl_wrote' = IF dl_file[1] + 1 > dl_wrote THEN dl_file[1] + 1 ELSE dl_wrote
    /\ UNCHANGED <<dl_retries, dl_session, dl_pc, dl_attempt, dl_err, dl_raised,
                   dl_requests, dl_sleeps, dl_only_cl0>>

\* lines 62-63: the body stream breaks (or the write fails) before the body is complete
DlStreamError ==
    /\ dl_pc = "body"
    /\ ExceptHandler(Exc("ClientPayloadError", 0))
    /\ UNCHANGED <<dl_retries, dl_session, dl_attempt, dl_body, dl_file,
                   dl_requests, dl_only_cl0, dl_wrote>>

\* lines 65-69: the body is complete; the size check on the written file and the return
DlFinish ==
    /\ dl_pc = "body"
    /\ dl_body = 0
    /\ IF dl_file[1] = 0
       THEN ExceptHandler(Exc("ZeroSizeException", 0))
       ELSE /\ dl_pc' = "returned"
            /\ UNCHANGED <<dl_err, dl_raised, dl_sleeps>>
    /\ UNCHANGED <<dl_retries, dl_session, dl_attempt, dl_body, dl_file,
                   dl_requests, dl_only_cl0, dl_wrote>>

\* lines 72-73: asyncio.sleep is over, continue with the next attempt
DlWake ==
    /\ dl_pc = "sleep"
    /\ dl_attempt' = dl_attempt + 1
    /\ dl_pc' = "request"
    /\ UNCHANGED <<dl_retries, dl_session, dl_body, dl_file, dl_err, dl_raised,
                   dl_requests, dl_sleeps, dl_only_cl0, dl_wrote>>

\* the caller has taken the result or the exception of the call
DlDone ==
    /\ dl_pc \in {"returned", "raised"}
    /\ dl_pc' = "idle"
    /\ UNCHANGED <<dl_retries, dl_session, dl_attempt, dl_body, dl_file, dl_err,
                   dl_raised, dl_requests, dl_sleeps, dl_only_cl0, dl_wrote>>

\* lines 105-108: close() closes the session if there is an open one
close(session) == IF session = "open" THEN "closed" ELSE session

DlClose ==
    /\ dl_session # "none"
    /\ dl_session' = close(dl_session)
    /\ UNCHANGED <<dl_retries, dl_pc, dl_attempt, dl_body, dl_file, dl_err,
                   dl_raised, dl_requests, dl_sleeps, dl_only_cl0, dl_wrote>>

DlIdle ==
    /\ dl_retries = 0
    /\ dl_session = "none"
    /\ dl_pc = "unused"
    /\ dl_attempt = 0
    /\ dl_body = 0
    /\ dl_file = None
    /\ dl_err = NoExc
    /\ dl_raised = ""
    /\ dl_requests = 0
    /\ dl_sleeps = << >>
    /\ dl_only_cl0 = TRUE
    /\ dl_wrote = 0

(* ======================================================================= *)
(* main.py, core/sender.py, core/render.py: the plugin                     *)
(* ======================================================================= *)
VARIABLES
    all_subclass,      \* BaseParser.get_all_subclass(): the extractor classes, each its _key_patterns
    pl_life,           \* "constructed", "ready" (initialize done) or "terminated"
    key_pattern_list,  \* self.key_pattern_list
    parser_map,        \* self.parser_map: keyword -> parser instance
    psession,          \* the HTTP session of every parser instance
    om_pc,             \* position of the on_message call
    msg_text,          \* event.message_str
    keyword,           \* on_message: the matched keyword
    examined,          \* history: the table entries the matching loop looked at, in order
    searched,          \* history: the table entries whose pattern was searched, in order
    invoked,           \* history: the parser instances whose parse was called for this message
    awaited,           \* history: the contents whose get_path was awaited, in order
    result,            \* parse_res
    plan,              \* send_parse_result: plan
    card,              \* _send_preview_card: card_path
    segs,              \* send_parse_result: segs, before and after merging
    next_i,            \* index of the next content to resolve / unit to send
    sent,              \* history: the message units event.send delivered for this message
    om_exc,            \* the exception on_message caught, and where it was raised
    outcome            \* how the on_message call ended

plVars == <<all_subclass, pl_life, key_pattern_list, parser_map, psession, om_pc, msg_text,
            keyword,
            examined, searched, invoked, awaited, result, plan, card, segs, next_i, sent, om_exc, outcome>>

msgVars == <<om_pc, msg_text, keyword, examined, searched, invoked, awaited, result, plan, card, segs, next_i, sent,
             om_exc, outcome>>

(* ---------------- extractor classes and their key patterns ---------------- *)
\* A pattern is the regular expression `literal followed by one digit or more`;
\* the pattern of KeylolParser succeeds exactly on the texts this one succeeds on.
KeyPattern(kw, lit) == [kw |-> kw, pat |-> lit]

kw_keylol == <<"k", "e", "y", "l", "o", "l", ".", "c", "o", "m">>

pat_keylol == kw_keylol \o <<"/", "t">>

\* core/parsers/keylol.py line 40: @handle("keylol.com", ...)
KeylolParser == << KeyPattern(kw_keylol, pat_keylol) >>

\* further extractor classes, with the keywords "ab" and "abc"
ParserAb == << KeyPattern(<<"a", "b">>, <<"c">>),
               KeyPattern(<<"a", "b", "c">>, <<"b", "c">>) >>

ParserAbc == << KeyPattern(<<"a", "b", "c">>, <<"a", "b", "c">>) >>

ParserB == << KeyPattern(<<"b">>, <<"b", "c">>) >>

\* the class lists get_all_subclass() can return
SubclassLists == { << KeylolParser >>,
                   << ParserAb, KeylolParser >>,
                   << ParserB, ParserAbc, KeylolParser >> }

Digits == {"0", "1", "2", "3", "4", "5", "6", "7", "8", "9"}

\* the message texts
Texts == { << >>,
           <<"h", "i">>,
           kw_keylol \o <<"/", "t", "7">>,
           kw_keylol \o <<"/", "x">>,
           <<"a", "b", "c", "1">>,
           <<"a", "b", "c", "a", "b", "c", "1">>,
           <<"c", "1", "a", "b">>,
           kw_keylol \o <<"/", "x", " ", "a", "b", "c", "1">>,
           <<"a", "b", "c", "1", " ">> \o kw_keylol \o <<"/", "t", "7">> }

\* `needle in text` at position p
OccursAt(needle, text, p) ==
    /\ p + Len(needle) - 1 <= Len(text)
    /\ \A k \in 1..Len(needle) : text[p + k - 1] = needle[k]

\* main.py line 116: kw in text
Contains(needle, text) == \E p \in 1..(Len(text) + 1) : OccursAt(needle, text, p)

\* main.py line 118: pat.search(text) finds a match
Search(pat, text) ==
    \E p \in 1..Len(text) :
        /\ OccursAt(pat, text, p)
        /\ p + Len(pat) <= Len(text)
        /\ text[p + Len(pat)] \in Digits

(* ---------------- _register_parser ---------------- *)
\* the parser instances: 0 is the one get_all_parsers made in __init__ (self.parsers),
\* i >= 1 is the one _register_parser makes for the i-th class
MaxClasses == 3

Instances == 0..MaxClasses

RECURSIVE Flatten(_)
\* main.py lines 86-88: the (kw, pat) pairs of all classes, in class order
Flatten(classes) ==
    IF classes = << >> THEN << >>
    ELSE Head(classes) \o Flatten(Tail(classes))

RECURSIVE InsertByKey(_, _)
\* x goes behind every entry whose keyword is at least as long (a stable sort)
InsertByKey(x, s) ==
    IF s = << >> THEN << x >>
    ELSE IF -Len(Head(s).kw) <= -Len(x.kw) THEN << Head(s) >> \o InsertByKey(x, Tail(s))
    ELSE << x >> \o s

RECURSIVE SortedFrom(_, _)
SortedFrom(s, acc) ==
    IF s = << >> THEN acc ELSE SortedFrom(Tail(s), InsertByKey(Head(s), acc))

\* variant: the table is left in class order
SortPatternsMut(s) == s

\* main.py line 91: patterns.sort(key=lambda x: -len(x[0]))
SortPatterns(s) == SortedFrom(s, << >>)

\* main.py lines 69-79: keyword -> instance; a later class overwrites an earlier one
ParserMapOf(classes) ==
    LET flat == Flatten(classes)
        kws == {flat[k].kw : k \in 1..Len(flat)}
        last(kw) == CHOOSE i \in 1..Len(classes) :
                       /\ \E j \in 1..Len(classes[i]) : classes[i][j].kw = kw
                       /\ \A i2 \in (i + 1)..Len(classes) :
                             \A j \in 1..Len(classes[i2]) : classes[i2][j].kw # kw
    IN [kw \in kws |-> last(kw)]

(* ---------------- on_message: matching ---------------- *)
RECURSIVE MatchLoopMut(_, _, _, _, _)
\* variant: the pattern is searched without the keyword test
MatchLoopMut(table, text, i, ex, se) ==
    IF i > Len(table) THEN [found |-> 0, examined |-> ex, searched |-> se]
    ELSE IF Search(table[i].pat, text)
         THEN [found |-> i, examined |-> Append(ex, i), searched |-> Append(se, i)]
    ELSE MatchLoopMut(table, text, i + 1, Append(ex, i), Append(se, i))

RECURSIVE MatchLoop(_, _, _, _, _)
\* main.py lines 113-120: found is the index of the entry that matched, 0 if none
MatchLoop(table, text, i, ex, se) ==
    IF i > Len(table) THEN [found |-> 0, examined |-> ex, searched |-> se]
    ELSE IF ~Contains(table[i].kw, text)
         THEN MatchLoop(table, text, i + 1, Append(ex, i), se)
    ELSE IF Search(table[i].pat, text)
         THEN [found |-> i, examined |-> Append(ex, i), searched |-> Append(se, i)]
    ELSE MatchLoop(table, text, i + 1, Append(ex, i), Append(se, i))

(* ---------------- ParseResult, segments, plan ---------------- *)
MaxContents == 6

\* core/config.py: self.forward_threshold
forward_threshold == 5

\* a Content holds a str path, or a download Task that ends with a path or raises
ContentKinds == {"path", "task_ok", "task_err"}

ContentSeqs == UNION {[1..n -> ContentKinds] : n \in 0..MaxContents}

NoResult == [platform |-> "", url |-> None, title |-> None, timestamp |-> None,
             contents |-> << >>]

\* core/parsers/keylol.py lines 159-166: the ParseResult of the extractor
KeylolResult(contents) ==
    [platform |-> "keylol", url |-> Some("https://keylol.com/t7"), title |-> None,
     timestamp |-> None, contents |-> contents]

NoPlan == [send_preview |-> FALSE, send_contents |-> FALSE, force_merge |-> FALSE]

\* core/sender.py lines 49-69
build_send_plan(r) ==
    [send_preview |-> TRUE, send_contents |-> TRUE,
     force_merge |-> (Len(r.contents) > forward_threshold)]

\* MessageSegment.image(path=...)
Image(path) == [type |-> "image", path |-> path]

\* core/render.py line 87: the card's cache path, derived from the resource id
CardPath(r) == <<"card", get_resource_id(r, "0f")>>

\* the local path the i-th content resolves to
MediaPath(i) == <<"media", i>>

\* variant: the nodes in reverse order
NodesMut(ss) == [k \in 1..Len(ss) |-> [type |-> "node", content |-> << ss[Len(ss) + 1 - k] >>]]

\* core/sender.py lines 147-156: one node per segment, in order
Nodes(ss) == [k \in 1..Len(ss) |-> [type |-> "node", content |-> << ss[k] >>]]

Forward(ss) == [type |-> "forward", node_list |-> Nodes(ss)]

\* variant: merging only when forced
merge_segments_if_needed_Mut(ss, force_merge) ==
    IF ~force_merge THEN ss ELSE << Forward(ss) >>

\* core/sender.py lines 129-158
merge_segments_if_needed(ss, force_merge) ==
    IF ~force_merge /\ Len(ss) <= 1 THEN ss ELSE << Forward(ss) >>

\* BaseParser.session: the extractor's own session, made when first needed
ParserSession(session) == IF session = "none" \/ session = "closed" THEN "open" ELSE session

\* BaseParser.close_session
close_session(session) == IF session = "open" THEN "closed" ELSE session

NoCatch == [type |-> "", src |-> ""]

Caught(type, src) == [type |-> type, src |-> src]

(* ---------------- state and actions ---------------- *)
MsgIdle ==
    /\ om_pc = "idle"
    /\ msg_text = << >>
    /\ keyword = << >>
    /\ examined = << >>
    /\ searched = << >>
    /\ invoked = << >>
    /\ awaited = << >>
    /\ result = NoResult
    /\ plan = NoPlan
    /\ card = None
    /\ segs = << >>
    /\ next_i = 0
    /\ sent = << >>
    /\ om_exc = NoCatch
    /\ outcome = ""

\* main.py lines 22-42: __init__
PlInit ==
    /\ all_subclass \in SubclassLists
    /\ pl_life = "constructed"
    /\ key_pattern_list = << >>
    /\ parser_map = << >>
    /\ psession = [i \in Instances |-> "none"]
    /\ MsgIdle

dlRest == <<dl_retries, dl_pc, dl_attempt, dl_body, dl_file, dl_err, dl_raised,
            dl_requests, dl_sleeps, dl_only_cl0, dl_wrote>>

\* main.py lines 44-49 and 59-95: initialize, with _register_parser
Initialize ==
    /\ pl_life = "constructed"
    /\ pl_life' = "ready"
    /\ key_pattern_list' = SortPatterns(Flatten(all_subclass))
    /\ parser_map' = ParserMapOf(all_subclass)
    /\ UNCHANGED <<all_subclass, psession, msgVars, dl_session>>

\* the except block of on_message, main.py lines 130-132: log and return
Catch(type, src) ==
    /\ om_exc' = Caught(type, src)
    /\ outcome' = "caught"
    /\ om_pc' = "done"

\* main.py lines 98-123: on_message up to the parse call
OnMessage ==
    /\ pl_life = "ready"
    /\ om_pc = "idle"
    /\ \E text \in Texts :
          /\ msg_text' = text
          /\ IF text = << >>
             THEN /\ om_pc' = "done"
                  /\ outcome' = "ignored"
                  /\ UNCHANGED <<keyword, examined, searched>>
             ELSE LET m == MatchLoop(key_pattern_list, text, 1, << >>, << >>) IN
                  /\ examined' = m.examined
                  /\ searched' = m.searched
                  /\ IF m.found = 0
                     THEN /\ om_pc' = "done"
                          /\ outcome' = "no_match"
                          /\ keyword' = keyword
                     ELSE /\ om_pc' = "parse"
                          /\ outcome' = outcome
                          /\ keyword' = key_pattern_list[m.found].kw
    /\ UNCHANGED <<all_subclass, pl_life, key_pattern_list, parser_map, psession, invoked, awaited,
                   result, plan, card, segs, next_i, sent, om_exc, dl_session>>

\* main.py line 127: the parse call of the extractor the keyword maps to
Parse ==
    /\ om_pc = "parse"
    /\ psession' = [psession EXCEPT ![parser_map[keyword]] = ParserSession(@)]
    /\ invoked' = Append(invoked, parser_map[keyword])
    /\ \/ /\ Catch("ParseException", "parse")
          /\ UNCHANGED <<result, dl_session>>
       \/ \E cs \in ContentSeqs :
             /\ result' = KeylolResult(cs)
             /\ dl_session' = IF \E k \in 1..Len(cs) : cs[k] # "path"
                              THEN get_session(dl_session) ELSE dl_session
             /\ om_pc' = "render"
             /\ UNCHANGED <<om_exc, outcome>>
    /\ UNCHANGED <<all_subclass, pl_life, key_pattern_list, parser_map, msg_text, keyword,
                   examined, searched, awaited, plan, card, segs, next_i, sent>>

\* core/sender.py lines 33-36 and 71-84, core/render.py lines 87-109:
\* the plan, then render_card
RenderCard ==
    /\ om_pc = "render"
    /\ plan' = build_send_plan(result)
    /\ \/ \* cache.parent.mkdir raises, outside the try block of render_card
          /\ Catch("OSError", "render_card")
          /\ UNCHANGED <<card, next_i>>
       \/ \* an exception inside the try block: render_card returns None
          /\ card' = None
          /\ om_pc' = "build"
          /\ next_i' = 1
          /\ UNCHANGED <<om_exc, outcome>>
       \/ /\ card' = Some(CardPath(result))
          /\ om_pc' = "send_card"
          /\ UNCHANGED <<om_exc, outcome, next_i>>
    /\ UNCHANGED <<all_subclass, pl_life, key_pattern_list, parser_map, psession, msg_text,
                   keyword, examined, searched, invoked, awaited, result, segs, sent, dl_session>>

\* core/sender.py lines 85-89: the card is sent
SendCard ==
    /\ om_pc = "send_card"
    /\ \/ /\ sent' = Append(sent, Image(card[1]))
          /\ om_pc' = "build"
          /\ next_i' = 1
          /\ UNCHANGED <<om_exc, outcome>>
       \/ /\ Catch("TransportError", "send")
          /\ UNCHANGED <<sent, next_i>>
    /\ UNCHANGED <<all_subclass, pl_life, key_pattern_list, parser_map, psession, msg_text,
                   keyword, examined, searched, invoked, awaited, result, plan, card, segs, dl_session>>

\* core/data.py lines 70-74: get_path of a content of kind c, None if the Task raises
get_path(c, i) == IF c = "task_err" THEN None ELSE Some(MediaPath(i))

\* core/sender.py lines 102-108 and 112-127: one content is resolved and wrapped
BuildSegment ==
    /\ om_pc = "build"
    /\ plan.send_contents
    /\ next_i <= Len(result.contents)
    /\ LET p == get_path(result.contents[next_i], next_i) IN
          IF p = None
          THEN /\ Catch("DownloadException", "get_path")
               /\ UNCHANGED <<segs, next_i>>
          ELSE /\ segs' = Append(segs, Image(p[1]))
               /\ next_i' = next_i + 1
               /\ UNCHANGED <<om_pc, om_exc, outcome>>
    /\ awaited' = Append(awaited, next_i)
    /\ UNCHANGED <<all_subclass, pl_life, key_pattern_list, parser_map, psession, msg_text,
                   keyword, examined, searched, invoked, result, plan, card, sent, dl_session>>

\* variant: the card is merged into the node list with the contents
MergeMut ==
    /\ om_pc = "build"
    /\ next_i > Len(result.contents)
    /\ segs' = merge_segments_if_needed(
                  (IF card # None THEN << Image(card[1]) >> ELSE << >>) \o segs,
                  plan.force_merge)
    /\ om_pc' = "send"
    /\ next_i' = 1
    /\ UNCHANGED <<all_subclass, pl_life, key_pattern_list, parser_map, psession, msg_text,
                   keyword, examined, searched, invoked, awaited, result, plan, card, sent, om_exc, outcome,
                   dl_session>>

\* core/sender.py line 42: all contents are resolved, the segments are merged if needed
Merge ==
    /\ om_pc = "build"
    /\ next_i > Len(result.contents)
    /\ segs' = merge_segments_if_needed(segs, plan.force_merge)
    /\ om_pc' = "send"
    /\ next_i' = 1
    /\ UNCHANGED <<all_subclass, pl_life, key_pattern_list, parser_map, psession, msg_text,
                   keyword, examined, searched, invoked, awaited, result, plan, card, sent, om_exc, outcome, dl_session>>

\* core/sender.py lines 45-47: one unit is sent
SendSegment ==
    /\ om_pc = "send"
    /\ next_i <= Len(segs)
    /\ \/ /\ sent' = Append(sent, segs[next_i])
          /\ next_i' = next_i + 1
          /\ UNCHANGED <<om_pc, om_exc, outcome>>
       \/ /\ Catch("TransportError", "send")
          /\ UNCHANGED <<sent, next_i>>
    /\ UNCHANGED <<all_subclass, pl_life, key_pattern_list, parser_map, psession, msg_text,
                   keyword, examined, searched, invoked, awaited, result, plan, card, segs, dl_session>>

\* send_parse_result returns, and on_message with it
Delivered ==
    /\ om_pc = "send"
    /\ next_i > Len(segs)
    /\ om_pc' = "done"
    /\ outcome' = "delivered"
    /\ UNCHANGED <<all_subclass, pl_life, key_pattern_list, parser_map, psession, msg_text,
                   keyword, examined, searched, invoked, awaited, result, plan, card, segs, next_i, sent, om_exc,
                   dl_session>>

\* the host is done with the message; the next one can come
NextMessage ==
    /\ om_pc = "done"
    /\ om_pc' = "idle"
    /\ msg_text' = << >>
    /\ keyword' = << >>
    /\ examined' = << >>
    /\ searched' = << >>
    /\ invoked' = << >>
    /\ awaited' = << >>
    /\ result' = NoResult
    /\ plan' = NoPlan
    /\ card' = None
    /\ segs' = << >>
    /\ next_i' = 0
    /\ sent' = << >>
    /\ om_exc' = NoCatch
    /\ outcome' = ""
    /\ UNCHANGED <<all_subclass, pl_life, key_pattern_list, parser_map, psession, dl_session>>

\* self.parsers: the instances made by get_all_parsers in __init__
SelfParsers == {0}

\* main.py lines 51-57
Terminate ==
    /\ pl_life = "ready"
    /\ om_pc = "idle"
    /\ pl_life' = "terminated"
    /\ dl_session' = close(dl_session)
    /\ psession' = [i \in Instances |-> IF i \in SelfParsers THEN close_session(psession[i])
                                         ELSE psession[i]]
    /\ UNCHANGED <<all_subclass, key_pattern_list, parser_map, msgVars>>

PlIdle ==
    /\ all_subclass = << >>
    /\ pl_life = "unused"
    /\ key_pattern_list = << >>
    /\ parser_map = << >>
    /\ psession = [i \in Instances |-> "none"]
    /\ MsgIdle

(* ======================================================================= *)
(* core/parsers/keylol.py: the ad test on the images of a post             *)
(* ======================================================================= *)
VARIABLES
    img,       \* the attributes of one <img> tag and of its parent tag
    img_url,   \* img_url after the placeholder substitution
    is_ad,     \* is_ad after the three tests
    kept,      \* the image's url was appended to img_urls
    ad_pc      \* "new" before the loop body ran for the image, "classified" after

adVars == <<img, img_url, is_ad, kept, ad_pc>>

\* strings that are searched or compared by prefix are tuples of characters
Placeholder == <<"s", "t", "a", "t", "i", "c", "/", "i", "m", "a", "g", "e", "/", "c", "o", "m", "m", "o", "n", "/", "n", "o", "n", "e", ".", "g", "i", "f">>

HelloPrefix == <<"h", "t", "t", "p", "s", ":", "/", "/", "k", "e", "y", "l", "o", "l", ".", "c", "o", "m", "/", "h", "e", "l", "l", "o", "/">>

Http == <<"h", "t", "t", "p">>

\* the attribute values of the images
Srcs == { << >>, Placeholder, <<"h", "t", "t", "p", ":", "/", "/", "k", ".", "c", "o", "/", "1", ".", "p", "n", "g">>, <<"h", "t", "t", "p", ":", "/", "/", "k", ".", "c", "o", "/", "u", "p", "l", "o", "a", "d", "/", "1", ".", "p", "n", "g">>, <<"h", "t", "t", "p", ":", "/", "/", "k", ".", "c", "o", "/", "B", "A", "N", "N", "E", "R", ".", "g", "i", "f">>, <<"/", "1", ".", "p", "n", "g">> }

Files == { << >>, <<"h", "t", "t", "p", ":", "/", "/", "k", ".", "c", "o", "/", "f", ".", "p", "n", "g">>, <<"f", ".", "p", "n", "g">> }

ZoomFiles == { << >>, <<"h", "t", "t", "p", ":", "/", "/", "k", ".", "c", "o", "/", "z", ".", "p", "n", "g">> }

Aids == {None, Some(""), Some("77")}

Widths == {None, Some("120"), Some("600")}

Heights == {None, Some("240")}

Parents == { [name |-> "td", href |-> << >>],
             [name |-> "a", href |-> HelloPrefix \o <<"1">>],
             [name |-> "a", href |-> <<"h", "t", "t", "p", "s", ":", "/", "/", "k", "e", "y", "l", "o", "l", ".", "c", "o", "m", "/", "t", "1">>] }

Images == [src : Srcs, file : Files, zoomfile : ZoomFiles, aid : Aids,
           width : Widths, height : Heights, parent : Parents]

\* s.startswith(prefix)
StartsWith(s, prefix) == OccursAt(prefix, s, 1)

\* str.lower() of one character, for the letters of the model
LowerChar(c) ==
    CASE c = "A" -> "a" [] c = "B" -> "b" [] c = "D" -> "d" [] c = "E" -> "e"
      [] c = "N" -> "n" [] c = "R" -> "r" [] OTHER -> c

lower(s) == [k \in 1..Len(s) |-> LowerChar(s[k])]

\* lines 102-111: the real url of an attachment image replaces the placeholder
ResolveUrl(i) ==
    IF i.src = Placeholder
    THEN IF i.file # << >> /\ StartsWith(i.file, Http) THEN i.file
         ELSE IF i.zoomfile # << >> /\ StartsWith(i.zoomfile, Http) THEN i.zoomfile
         ELSE i.src
    ELSE i.src

AdKeywords == { <<"a", "d">>, <<"a", "d", "v", "e", "r", "t", "i", "s", "e", "m", "e", "n", "t">>, <<"b", "a", "n", "n", "e", "r">> }

\* lines 117-118: the url holds an ad keyword
AdByUrl(url) == \E k \in AdKeywords : Contains(k, lower(url))

\* lines 121-124: the image is wrapped in a link to https://keylol.com/hello/
AdByLink(i) == i.parent.name = "a" /\ StartsWith(i.parent.href, HelloPrefix)

\* lines 127-132: no aid, not the placeholder, and 120x240
AdBySize(i, url) ==
    /\ ~TruthyStr(i.aid)
    /\ url # Placeholder
    /\ i.width = Some("120")
    /\ i.height = Some("240")

\* lines 114-132
IsAd(i, url) == AdByUrl(url) \/ AdByLink(i) \/ AdBySize(i, url)

\* lines 135-136
Kept(url, ad) == url # << >> /\ StartsWith(url, Http) /\ ~ad

AdInit ==
    /\ img \in Images
    /\ img_url = << >>
    /\ is_ad = FALSE
    /\ kept = FALSE
    /\ ad_pc = "new"

\* lines 97-136: the loop body for one image
ClassifyImage ==
    /\ ad_pc = "new"
    /\ img_url' = ResolveUrl(img)
    /\ is_ad' = IsAd(img, ResolveUrl(img))
    /\ kept' = Kept(ResolveUrl(img), IsAd(img, ResolveUrl(img)))
    /\ ad_pc' = "classified"
    /\ img' = img

AdIdle ==
    /\ img = [src |-> << >>, file |-> << >>, zoomfile |-> << >>, aid |-> None,
              width |-> None, height |-> None, parent |-> [name |-> "td", href |-> << >>]]
    /\ img_url = << >>
    /\ is_ad = FALSE
    /\ kept = FALSE
    /\ ad_pc = "unused"

(* ======================================================================= *)
(* core/parsers/keylol.py: clean_keylol_text                               *)
(* ======================================================================= *)
\* A text is a tuple of characters; a character outside ASCII is written by
\* its code point ("U+4E0A").
VARIABLES
    ct_text,    \* the argument text
    ct_max,     \* the argument max_length
    ct_once,    \* clean_keylol_text(text)
    ct_twice,   \* clean_keylol_text(clean_keylol_text(text))
    ct_pc       \* "new", "once" or "twice"

cleanVars == <<ct_text, ct_max, ct_once, ct_twice, ct_pc>>

MaxTextLen == 4

\* the default of max_length
max_length == 500

\* the characters of the texts
Alphabet == {"S", "C", "E", "|", " ", "\n"}

CleanTexts == UNION {[1..n -> Alphabet] : n \in 0..MaxTextLen}

MaxLengths == {3, max_length}

\* \s
Whitespace == {" ", "\t", "\n", "\r", "\f"}

\* [a-zA-Z0-9_]
WordChars == {"a", "b", "c", "d", "e", "f", "g", "h", "i", "j", "k", "l", "m", "n", "o", "p", "q", "r", "s", "t", "u", "v", "w", "x", "y", "z", "A", "B", "C", "D", "E", "F", "G", "H", "I", "J", "K", "L", "M", "N", "O", "P", "Q", "R", "S", "T", "U", "V", "W", "X", "Y", "Z"} \cup Digits \cup {"_"}

\* (jpg|jpeg|png|gif|bmp|webp), in the order of the alternatives
Extensions == << <<"j", "p", "g">>, <<"j", "p", "e", "g">>, <<"p", "n", "g">>, <<"g", "i", "f">>, <<"b", "m", "p">>, <<"w", "e", "b", "p">> >>

\* lines 171-201: the rules, in order; a and b are the literal parts of the pattern
rules ==
   << 
      [kind |-> "span", a |-> <<"U+5F15", "U+7528">>, b |-> <<"U+FF1A">>, repl |-> <<>>],
      [kind |-> "lit", a |-> <<"U+67E5", "U+770B", "U+9644", "U+4EF6">>, b |-> <<>>, repl |-> <<>>],
      [kind |-> "span", a |-> <<"S", "t", "e", "a", "m", "U+5546", "U+5E97">>, b |-> <<"U+590D", "U+5236", "A", "S", "F", "U+4EE3", "U+7801">>, repl |-> <<>>],
      [kind |-> "lit", a |-> <<"S", "t", "e", "a", "m", "U+5546", "U+5E97">>, b |-> <<>>, repl |-> <<>>],
      [kind |-> "lit", a |-> <<"S", "t", "e", "a", "m", "U+8BC4", "U+6D4B", "U+533A">>, b |-> <<>>, repl |-> <<>>],
      [kind |-> "lit", a |-> <<"U+5176", "U+4E50", "U+76F8", "U+5173", "U+5E16">>, b |-> <<>>, repl |-> <<>>],
      [kind |-> "lit", a |-> <<"S", "t", "e", "a", "m", "D", "B">>, b |-> <<>>, repl |-> <<>>],
      [kind |-> "lit", a |-> <<"A", "S", "t", "a", "t", "s">>, b |-> <<>>, repl |-> <<>>],
      [kind |-> "lit", a |-> <<"S", "C", "E">>, b |-> <<>>, repl |-> <<>>],
      [kind |-> "lit", a |-> <<"B", "a", "r", "t", "e", "r">>, b |-> <<>>, repl |-> <<>>],
      [kind |-> "lit", a |-> <<"S", "t", "e", "a", "m", "U+5BA2", "U+6237", "U+7AEF", "U+4E2D", "U+67E5", "U+770B">>, b |-> <<>>, repl |-> <<>>],
      [kind |-> "lit", a |-> <<"U+5165", "U+5E93", "U+6216", "U+5B89", "U+88C5">>, b |-> <<>>, repl |-> <<>>],
      [kind |-> "lit", a |-> <<"U+590D", "U+5236", "A", "S", "F", "U+4EE3", "U+7801">>, b |-> <<>>, repl |-> <<>>],
      [kind |-> "span", a |-> <<"U+672C", "U+6587", "U+4E3A">>, b |-> <<"U+4E25", "U+7981", "U+8F6C", "U+8F7D">>, repl |-> <<>>],
      [kind |-> "imgname", a |-> <<>>, b |-> <<>>, repl |-> <<>>],
      [kind |-> "kbsize", a |-> <<" ", "K", "B", ",", " ", "U+4E0B", "U+8F7D", "U+6B21", "U+6570", ":", " ">>, b |-> <<>>, repl |-> <<>>],
      [kind |-> "lit", a |-> <<"U+4E0B", "U+8F7D", "U+9644", "U+4EF6">>, b |-> <<>>, repl |-> <<>>],
      [kind |-> "hoursago", a |-> <<"U+5C0F", "U+65F6", "U+524D">>, b |-> <<>>, repl |-> <<>>],
      [kind |-> "lit", a |-> <<"U+4E0A", "U+4F20">>, b |-> <<>>, repl |-> <<>>],
      [kind |-> "nl3", a |-> <<>>, b |-> <<>>, repl |-> <<"\n", "\n">>],
      [kind |-> "blanks", a |-> <<>>, b |-> <<>>, repl |-> <<" ">>],
      [kind |-> "nlsnl", a |-> <<>>, b |-> <<>>, repl |-> <<"\n", "\n">>],
      [kind |-> "pipes", a |-> <<>>, b |-> <<>>, repl |-> <<>>],
      [kind |-> "lead", a |-> <<>>, b |-> <<>>, repl |-> <<>>],
      [kind |-> "trail", a |-> <<>>, b |-> <<>>, repl |-> <<>>] >>

\* the last index of the longest run of characters of set cs that starts at p (p - 1 if none)
RunEnd(s, p, cs) ==
    CHOOSE e \in (p - 1)..Len(s) :
        /\ \A k \in p..e : s[k] \in cs
        /\ (e = Len(s) \/ s[e + 1] \notin cs)

\* the first position q >= from where needle occurs in s, 0 if none
FirstAt(needle, s, from) ==
    IF \E q \in from..Len(s) : OccursAt(needle, s, q)
    THEN CHOOSE q \in from..Len(s) :
            /\ OccursAt(needle, s, q)
            /\ \A q2 \in from..(q - 1) : ~OccursAt(needle, s, q2)
    ELSE 0

\* the tail of the size pattern behind the number: " KB, ...: " \d+ ")"
KbTail(lit, s, q) ==
    IF OccursAt(lit, s, q)
    THEN LET d == RunEnd(s, q + Len(lit), Digits) IN
         IF d >= q + Len(lit) /\ d + 1 <= Len(s) /\ s[d + 1] = ")" THEN d + 1 ELSE 0
    ELSE 0

\* the index where a match of the rule's pattern that starts at p ends, 0 if
\* the pattern does not match at p (leftmost match, greedy or lazy as written)
MatchEnd(rule, s, p) ==
    CASE rule.kind = "lit" ->
            IF OccursAt(rule.a, s, p) THEN p + Len(rule.a) - 1 ELSE 0
      [] rule.kind = "span" ->
            IF OccursAt(rule.a, s, p)
            THEN LET q == FirstAt(rule.b, s, p + Len(rule.a)) IN
                 IF q > 0 THEN q + Len(rule.b) - 1 ELSE 0
            ELSE 0
      [] rule.kind = "imgname" ->
            LET e == RunEnd(s, p, WordChars) IN
            IF e >= p /\ e + 1 <= Len(s) /\ s[e + 1] = "."
               /\ \E x \in 1..Len(Extensions) : OccursAt(Extensions[x], s, e + 2)
            THEN LET x == CHOOSE x \in 1..Len(Extensions) :
                             /\ OccursAt(Extensions[x], s, e + 2)
                             /\ \A y \in 1..(x - 1) : ~OccursAt(Extensions[y], s, e + 2)
                 IN e + 1 + Len(Extensions[x])
            ELSE 0
      [] rule.kind = "kbsize" ->
            IF s[p] # "(" THEN 0
            ELSE LET d1 == RunEnd(s, p + 1, Digits) IN
                 IF d1 < p + 1 THEN 0
                 ELSE LET d2 == IF d1 + 1 <= Len(s) /\ s[d1 + 1] = "."
                                THEN RunEnd(s, d1 + 2, Digits) ELSE 0
                          withFraction == IF d2 >= d1 + 2 THEN KbTail(rule.a, s, d2 + 1) ELSE 0
                      IN IF withFraction > 0 THEN withFraction ELSE KbTail(rule.a, s, d1 + 1)
      [] rule.kind = "hoursago" ->
            LET d == RunEnd(s, p, Digits)
                w == RunEnd(s, d + 1, Whitespace)
            IN IF d >= p /\ w >= d + 1 /\ OccursAt(rule.a, s, w + 1)
               THEN w + Len(rule.a) ELSE 0
      [] rule.kind = "nl3" ->
            LET e == RunEnd(s, p, {"\n"}) IN IF e - p + 1 >= 3 THEN e ELSE 0
      [] rule.kind = "blanks" ->
            LET e == RunEnd(s, p, {" ", "\t"}) IN IF e >= p THEN e ELSE 0
      [] rule.kind = "nlsnl" ->
            IF s[p] # "\n" THEN 0
            ELSE LET w == RunEnd(s, p + 1, Whitespace) IN
                 IF \E l \in (p + 2)..w : s[l] = "\n"
                 THEN CHOOSE l \in (p + 2)..w :
                         s[l] = "\n" /\ \A l2 \in (l + 1)..w : s[l2] # "\n"
                 ELSE 0
      [] rule.kind = "pipes" ->
            LET e == RunEnd(s, p, {"|"}) IN
            IF e >= p THEN RunEnd(s, e + 1, Whitespace) ELSE 0
      [] rule.kind = "lead" ->
            IF p = 1 /\ s[1] \in Whitespace THEN RunEnd(s, 1, Whitespace) ELSE 0
      [] rule.kind = "trail" ->
            IF s[p] \in Whitespace /\ RunEnd(s, p, Whitespace) = Len(s) THEN Len(s) ELSE 0

RECURSIVE SubFrom(_, _, _)
\* line 205: re.sub(pattern, replacement, text) from position p on
SubFrom(rule, s, p) ==
    IF p > Len(s) THEN << >>
    ELSE LET e == MatchEnd(rule, s, p) IN
         IF e >= p THEN rule.repl \o SubFrom(rule, s, e + 1)
         ELSE << s[p] >> \o SubFrom(rule, s, p + 1)

RECURSIVE ApplyRules(_, _, _)
\* lines 203-205: the rules are applied one after the other
ApplyRules(rs, s, k) ==
    IF k > Len(rs) THEN s ELSE ApplyRules(rs, SubFrom(rs[k], s, 1), k + 1)

\* line 207: text.strip()
strip(s) ==
    IF \A k \in 1..Len(s) : s[k] \in Whitespace THEN << >>
    ELSE LET first == CHOOSE i \in 1..Len(s) :
                         s[i] \notin Whitespace /\ \A j \in 1..(i - 1) : s[j] \in Whitespace
             last == CHOOSE i \in 1..Len(s) :
                         s[i] \notin Whitespace /\ \A j \in (i + 1)..Len(s) : s[j] \in Whitespace
         IN SubSeq(s, first, last)

\* lines 210-211: the cut to max_length, with the ellipsis
Truncate(s, maxlen) ==
    IF Len(s) > maxlen THEN SubSeq(s, 1, maxlen) \o <<".", ".", ".">> ELSE s

\* lines 168-213
clean_keylol_text(text, maxlen) == Truncate(strip(ApplyRules(rules, text, 1)), maxlen)

CleanInit ==
    /\ ct_text \in CleanTexts
    /\ ct_max \in MaxLengths
    /\ ct_once = << >>
    /\ ct_twice = << >>
    /\ ct_pc = "new"

\* the text is cleaned
CleanOnce ==
    /\ ct_pc = "new"
    /\ ct_once' = clean_keylol_text(ct_text, ct_max)
    /\ ct_pc' = "once"
    /\ UNCHANGED <<ct_text, ct_max, ct_twice>>

\* the cleaned text is cleaned again
CleanTwice ==
    /\ ct_pc = "once"
    /\ ct_twice' = clean_keylol_text(ct_once, ct_max)
    /\ ct_pc' = "twice"
    /\ UNCHANGED <<ct_text, ct_max, ct_once>>

CleanIdle ==
    /\ ct_text = << >>
    /\ ct_max = max_length
    /\ ct_once = << >>
    /\ ct_twice = << >>
    /\ ct_pc = "unused"

(* ======================================================================= *)
(* core/render.py: Renderer._wrap_text                                     *)
(* ======================================================================= *)
VARIABLES
    wr_text,     \* the argument text, a tuple of characters
    wr_width,    \* the font: the measured width of each character
    wr_max,      \* the argument max_width
    wr_lines,    \* lines
    wr_current,  \* current_line
    wr_i,        \* the index of the next character of the for loop
    wr_pc        \* "loop", "tail" or "done"

wrapVars == <<wr_text, wr_width, wr_max, wr_lines, wr_current, wr_i, wr_pc>>

MaxWrapLen == 4

WrapChars == {"a", "b"}

CharWidths == {0, 1, 2, 4}

MaxWidths == {2, 3}

WrapTexts == UNION {[1..n -> WrapChars] : n \in 0..MaxWrapLen}

RECURSIVE Measure(_, _)
\* lines 212-213: bbox = font.getbbox(line); width = bbox[2] - bbox[0]
Measure(w, line) ==
    IF line = << >> THEN 0 ELSE w[Head(line)] + Measure(w, Tail(line))

\* the mutant commits a line that the next character fills exactly
wrap_charMut(lines, current_line, char, w, max_width) ==
    LET test_line == Append(current_line, char) IN
    IF Measure(w, test_line) >= max_width
    THEN [lines |-> Append(lines, current_line), current_line |-> << char >>]
    ELSE [lines |-> lines, current_line |-> test_line]

\* lines 210-218: the body of the for loop
wrap_char(lines, current_line, char, w, max_width) ==
    LET test_line == Append(current_line, char) IN
    IF Measure(w, test_line) > max_width
    THEN [lines |-> Append(lines, current_line), current_line |-> << char >>]
    ELSE [lines |-> lines, current_line |-> test_line]

WrapInit ==
    /\ wr_text \in WrapTexts
    /\ wr_width \in [WrapChars -> CharWidths]
    /\ wr_max \in MaxWidths
    /\ wr_lines = << >>
    /\ wr_current = << >>
    /\ wr_i = 1
    /\ wr_pc = "loop"

\* lines 209-218: one iteration of for char in text
WrapChar ==
    /\ wr_pc = "loop"
    /\ wr_i <= Len(wr_text)
    /\ LET r == wrap_char(wr_lines, wr_current, wr_text[wr_i], wr_width, wr_max) IN
        /\ wr_lines' = r.lines
        /\ wr_current' = r.current_line
    /\ wr_i' = wr_i + 1
    /\ UNCHANGED <<wr_text, wr_width, wr_max, wr_pc>>

\* lines 219-220: the loop is over, a non-empty current_line is the last line
WrapTail ==
    /\ wr_pc = "loop"
    /\ wr_i > Len(wr_text)
    /\ wr_lines' = IF wr_current # << >> THEN Append(wr_lines, wr_current) ELSE wr_lines
    /\ wr_pc' = "done"
    /\ UNCHANGED <<wr_text, wr_width, wr_max, wr_current, wr_i>>

WrapIdle ==
    /\ wr_text = << >>
    /\ wr_width = [c \in WrapChars |-> 0]
    /\ wr_max = 0
    /\ wr_lines = << >>
    /\ wr_current = << >>
    /\ wr_i = 0
    /\ wr_pc = "unused"

(* ======================================================================= *)
(* core/download.py: the session of one Downloader over a sequence of calls *)
(* ======================================================================= *)
VARIABLES
    ss_state,    \* self.session: "none", or the state of the object it refers to
    ss_id,       \* the number of ClientSession objects constructed; the last one is self.session
    ss_closed,   \* the session objects that have been closed
    ss_ret,      \* the session object the last get_session returned, 0 before
    ss_log       \* the calls made so far

sessVars == <<ss_state, ss_id, ss_closed, ss_ret, ss_log>>

MaxCalls == 5

\* line 17: self.session = None
SessInit ==
    /\ ss_state = "none"
    /\ ss_id = 0
    /\ ss_closed = {}
    /\ ss_ret = 0
    /\ ss_log = << >>

\* lines 21-27: a ClientSession is constructed when self.session is None or
\* closed; self.session is returned
SessGet(call) ==
    /\ Len(ss_log) < MaxCalls
    /\ ss_state' = get_session(ss_state)
    /\ ss_id' = IF ss_state \in {"none", "closed"} THEN ss_id + 1 ELSE ss_id
    /\ ss_ret' = ss_id'
    /\ ss_log' = Append(ss_log, call)
    /\ UNCHANGED ss_closed

SessGetSession == SessGet("get_session")

\* line 37: download_file takes its session from get_session
SessDownloadFile == SessGet("download_file")

\* lines 105-108
SessClose ==
    /\ Len(ss_log) < MaxCalls
    /\ ss_state' = close(ss_state)
    /\ ss_closed' = IF ss_state = "open" THEN ss_closed \cup {ss_id} ELSE ss_closed
    /\ ss_log' = Append(ss_log, "close")
    /\ UNCHANGED <<ss_id, ss_ret>>

SessIdle ==
    /\ ss_state = "unused"
    /\ ss_id = 0
    /\ ss_closed = {}
    /\ ss_ret = 0
    /\ ss_log = << >>

(* ======================================================================= *)
(* core/download.py: two download_file calls on one event loop             *)
(* ======================================================================= *)
\* The calls run as tasks of one event loop: a call runs alone from one await
\* to the next (session.get, each chunk of response.content, asyncio.sleep).
\* A file is the tuple of the chunks it holds; every chunk of a response is
\* tagged with the call it belongs to.
VARIABLES
    cc_retries,  \* config.download_retry_times
    cc_name,     \* per call: file_name, the last segment of its url
    cc_len,      \* per call: the number of chunks of its response body
    cc_pc,       \* per call: "idle", "get", "stream", "sleep", "returned", "raised"
    cc_attempt,  \* per call: attempt
    cc_k,        \* per call: the chunks received in this attempt
    cc_buf,      \* per call: the chunks written to f that are still in its buffer
    cc_off,      \* per call: the position of f in the file
    cc_files     \* the cache directory: file name -> content

ccVars == <<cc_retries, cc_name, cc_len, cc_pc, cc_attempt, cc_k, cc_buf, cc_off, cc_files>>

Calls == {1, 2}

MaxBody == 2

MaxRetriesCc == 1

FileNames == {"1.jpg", "2.jpg"}

\* a position of a file that no write has filled
Hole == <<0, 0>>

\* the bytes of the response of call p
Body(p) == [k \in 1..cc_len[p] |-> <<p, k>>]

\* the file after data has been written at position off
WriteAt(f, off, data) ==
    IF data = << >> THEN f
    ELSE LET n == IF Len(f) > off + Len(data) THEN Len(f) ELSE off + Len(data) IN
         [i \in 1..n |-> IF i > off /\ i <= off + Len(data) THEN data[i - off]
                         ELSE IF i <= Len(f) THEN f[i] ELSE Hole]

CcInit ==
    /\ cc_retries \in 0..MaxRetriesCc
    /\ cc_name \in [Calls -> FileNames]
    /\ cc_len \in [Calls -> 1..MaxBody]
    /\ cc_pc = [p \in Calls |-> "idle"]
    /\ cc_attempt = [p \in Calls |-> 0]
    /\ cc_k = [p \in Calls |-> 0]
    /\ cc_buf = [p \in Calls |-> << >>]
    /\ cc_off = [p \in Calls |-> 0]
    /\ cc_files = [n \in FileNames |-> << >>]

\* lines 37-50: the call starts and waits for the response of session.get
CcCall(p) ==
    /\ cc_pc[p] = "idle"
    /\ cc_pc' = [cc_pc EXCEPT ![p] = "get"]
    /\ cc_attempt' = [cc_attempt EXCEPT ![p] = 0]
    /\ UNCHANGED <<cc_retries, cc_name, cc_len, cc_k, cc_buf, cc_off, cc_files>>

\* lines 70-76: the except clause
CcExcept(p) ==
    IF cc_attempt[p] < cc_retries
    THEN cc_pc' = [cc_pc EXCEPT ![p] = "sleep"]
    ELSE cc_pc' = [cc_pc EXCEPT ![p] = "raised"]

\* lines 50-62: the response is there; open(cache_file, "wb") empties the file
\* and the call waits for the first chunk
CcOpen(p) ==
    /\ cc_pc[p] = "get"
    /\ cc_pc' = [cc_pc EXCEPT ![p] = "stream"]
    /\ cc_files' = [cc_files EXCEPT ![cc_name[p]] = << >>]
    /\ cc_k' = [cc_k EXCEPT ![p] = 0]
    /\ cc_buf' = [cc_buf EXCEPT ![p] = << >>]
    /\ cc_off' = [cc_off EXCEPT ![p] = 0]
    /\ UNCHANGED <<cc_retries, cc_name, cc_len, cc_attempt>>

\* lines 50-51: session.get or raise_for_status raises
CcRequestError(p) ==
    /\ cc_pc[p] = "get"
    /\ CcExcept(p)
    /\ UNCHANGED <<cc_retries, cc_name, cc_len, cc_attempt, cc_k, cc_buf, cc_off, cc_files>>

\* lines 62-63: a chunk arrives and f.write(chunk) puts it in the buffer of f,
\* which f.write may write out to the file at the position of f
CcChunk(p) ==
    /\ cc_pc[p] = "stream"
    /\ cc_k[p] < cc_len[p]
    /\ cc_k' = [cc_k EXCEPT ![p] = @ + 1]
    /\ LET buf == Append(cc_buf[p], <<p, cc_k[p] + 1>>) IN
          \/ /\ cc_buf' = [cc_buf EXCEPT ![p] = buf]
             /\ UNCHANGED <<cc_off, cc_files>>
          \/ /\ cc_buf' = [cc_buf EXCEPT ![p] = << >>]
             /\ cc_off' = [cc_off EXCEPT ![p] = @ + Len(buf)]
             /\ cc_files' = [cc_files EXCEPT ![cc_name[p]] = WriteAt(@, cc_off[p], buf)]
    /\ UNCHANGED <<cc_retries, cc_name, cc_len, cc_pc, cc_attempt>>

\* lines 61-69: the body is over; f is closed, which writes its buffer out;
\* an empty file raises ZeroSizeException, otherwise cache_file is returned
CcEnd(p) ==
    /\ cc_pc[p] = "stream"
    /\ cc_k[p] = cc_len[p]
    /\ LET f == WriteAt(cc_files[cc_name[p]], cc_off[p], cc_buf[p]) IN
          /\ cc_files' = [cc_files EXCEPT ![cc_name[p]] = f]
          /\ IF Len(f) = 0 THEN CcExcept(p)
             ELSE cc_pc' = [cc_pc EXCEPT ![p] = "returned"]
    /\ cc_off' = [cc_off EXCEPT ![p] = @ + Len(cc_buf[p])]
    /\ cc_buf' = [cc_buf EXCEPT ![p] = << >>]
    /\ UNCHANGED <<cc_retries, cc_name, cc_len, cc_attempt, cc_k>>

\* lines 72-73 and 48: the sleep is over, the next attempt
CcWake(p) ==
    /\ cc_pc[p] = "sleep"
    /\ cc_pc' = [cc_pc EXCEPT ![p] = "get"]
    /\ cc_attempt' = [cc_attempt EXCEPT ![p] = @ + 1]
    /\ UNCHANGED <<cc_retries, cc_name, cc_len, cc_k, cc_buf, cc_off, cc_files>>

CcIdle ==
    /\ cc_retries = 0
    /\ cc_name = [p \in Calls |-> "1.jpg"]
    /\ cc_len = [p \in Calls |-> 1]
    /\ cc_pc = [p \in Calls |-> "unused"]
    /\ cc_attempt = [p \in Calls |-> 0]
    /\ cc_k = [p \in Calls |-> 0]
    /\ cc_buf = [p \in Calls |-> << >>]
    /\ cc_off = [p \in Calls |-> 0]
    /\ cc_files = [n \in FileNames |-> << >>]

(* ======================================================================= *)
(* Specifications                                                          *)
(* ======================================================================= *)
pureVars == <<adVars, cleanVars, wrapVars, sessVars, ccVars>>

PureIdle == AdIdle /\ CleanIdle /\ WrapIdle /\ SessIdle /\ CcIdle

vars == <<ridVars, dlVars, plVars, pureVars>>

\* get_resource_id applied to every ParseResult of the bounded domain
NextRid == GetResourceId /\ UNCHANGED <<dlVars, plVars, pureVars>>

InitRid == RidInit /\ DlIdle /\ PlIdle /\ PureIdle

SpecRid == InitRid /\ [][NextRid]_vars

\* one Downloader: download_file calls, one at a time, and close
NextDownload ==
    \/ (DlCall /\ UNCHANGED <<ridVars, plVars, pureVars>>)
    \/ (DlRequest /\ UNCHANGED <<ridVars, plVars, pureVars>>)
    \/ (DlChunk /\ UNCHANGED <<ridVars, plVars, pureVars>>)
    \/ (DlStreamError /\ UNCHANGED <<ridVars, plVars, pureVars>>)
    \/ (DlFinish /\ UNCHANGED <<ridVars, plVars, pureVars>>)
    \/ (DlWake /\ UNCHANGED <<ridVars, plVars, pureVars>>)
    \/ (DlDone /\ UNCHANGED <<ridVars, plVars, pureVars>>)
    \/ (DlClose /\ UNCHANGED <<ridVars, plVars, pureVars>>)

InitDownload == DlInit /\ RidIdle /\ PlIdle /\ PureIdle

SpecDownload == InitDownload /\ [][NextDownload]_vars

\* the steps of a running download_file call: every await in it completes (each
\* request is bounded by the session's ClientTimeout, each sleep by its duration)
DlProgress == (DlRequest \/ DlChunk \/ DlStreamError \/ DlFinish \/ DlWake) /\ UNCHANGED <<ridVars, plVars, pureVars>>

FairSpecDownload == SpecDownload /\ WF_vars(DlProgress)

\* the plugin: initialize, messages one at a time, terminate
NextPlugin ==
    \/ (Initialize /\ UNCHANGED <<ridVars, dlRest, pureVars>>)
    \/ (OnMessage /\ UNCHANGED <<ridVars, dlRest, pureVars>>)
    \/ (Parse /\ UNCHANGED <<ridVars, dlRest, pureVars>>)
    \/ (RenderCard /\ UNCHANGED <<ridVars, dlRest, pureVars>>)
    \/ (SendCard /\ UNCHANGED <<ridVars, dlRest, pureVars>>)
    \/ (BuildSegment /\ UNCHANGED <<ridVars, dlRest, pureVars>>)
    \/ (Merge /\ UNCHANGED <<ridVars, dlRest, pureVars>>)
    \/ (SendSegment /\ UNCHANGED <<ridVars, dlRest, pureVars>>)
    \/ (Delivered /\ UNCHANGED <<ridVars, dlRest, pureVars>>)
    \/ (NextMessage /\ UNCHANGED <<ridVars, dlRest, pureVars>>)
    \/ (Terminate /\ UNCHANGED <<ridVars, dlRest, pureVars>>)

InitPlugin == PlInit /\ RidIdle /\ DlIdle /\ PureIdle

SpecPlugin == InitPlugin /\ [][NextPlugin]_vars

\* the ad test applied to every image of the bounded domain
NextAd == ClassifyImage /\ UNCHANGED <<ridVars, dlVars, plVars, cleanVars, wrapVars, sessVars, ccVars>>

InitAd == AdInit /\ RidIdle /\ DlIdle /\ PlIdle /\ CleanIdle /\ WrapIdle /\ SessIdle /\ CcIdle

SpecAd == InitAd /\ [][NextAd]_vars

\* clean_keylol_text applied twice to every text of the bounded domain
NextClean ==
    \/ (CleanOnce /\ UNCHANGED <<ridVars, dlVars, plVars, adVars, wrapVars, sessVars, ccVars>>)
    \/ (CleanTwice /\ UNCHANGED <<ridVars, dlVars, plVars, adVars, wrapVars, sessVars, ccVars>>)

InitClean == CleanInit /\ RidIdle /\ DlIdle /\ PlIdle /\ AdIdle /\ WrapIdle /\ SessIdle /\ CcIdle

SpecClean == InitClean /\ [][NextClean]_vars

\* _wrap_text on every text, font and max_width of the bounded domain
NextWrap ==
    \/ (WrapChar /\ UNCHANGED <<ridVars, dlVars, plVars, adVars, cleanVars, sessVars, ccVars>>)
    \/ (WrapTail /\ UNCHANGED <<ridVars, dlVars, plVars, adVars, cleanVars, sessVars, ccVars>>)

InitWrap == WrapInit /\ RidIdle /\ DlIdle /\ PlIdle /\ AdIdle /\ CleanIdle /\ SessIdle /\ CcIdle

SpecWrap == InitWrap /\ [][NextWrap]_vars

\* every sequence of at most MaxCalls calls on one Downloader
NextSession ==
    \/ (SessGetSession /\ UNCHANGED <<ridVars, dlVars, plVars, adVars, cleanVars, wrapVars, ccVars>>)
    \/ (SessDownloadFile /\ UNCHANGED <<ridVars, dlVars, plVars, adVars, cleanVars, wrapVars, ccVars>>)
    \/ (SessClose /\ UNCHANGED <<ridVars, dlVars, plVars, adVars, cleanVars, wrapVars, ccVars>>)

InitSession == SessInit /\ RidIdle /\ DlIdle /\ PlIdle /\ AdIdle /\ CleanIdle /\ WrapIdle /\ CcIdle

SpecSession == InitSession /\ [][NextSession]_vars

\* two download_file calls, interleaved at their awaits
NextConcurrent ==
    \/ \E p \in Calls : CcCall(p) /\ UNCHANGED <<ridVars, dlVars, plVars, adVars, cleanVars, wrapVars, sessVars>>
    \/ \E p \in Calls : CcOpen(p) /\ UNCHANGED <<ridVars, dlVars, plVars, adVars, cleanVars, wrapVars, sessVars>>
    \/ \E p \in Calls : CcRequestError(p) /\ UNCHANGED <<ridVars, dlVars, plVars, adVars, cleanVars, wrapVars, sessVars>>
    \/ \E p \in Calls : CcChunk(p) /\ UNCHANGED <<ridVars, dlVars, plVars, adVars, cleanVars, wrapVars, sessVars>>
    \/ \E p \in Calls : CcEnd(p) /\ UNCHANGED <<ridVars, dlVars, plVars, adVars, cleanVars, wrapVars, sessVars>>
    \/ \E p \in Calls : CcWake(p) /\ UNCHANGED <<ridVars, dlVars, plVars, adVars, cleanVars, wrapVars, sessVars>>

InitConcurrent == CcInit /\ RidIdle /\ DlIdle /\ PlIdle /\ AdIdle /\ CleanIdle /\ WrapIdle /\ SessIdle

SpecConcurrent == InitConcurrent /\ [][NextConcurrent]_vars

(* ======================================================================= *)
(* Claims                                                                  *)
(* ======================================================================= *)

\* C1: after get_resource_id() the id follows the priority url > title >
\* timestamp > content-count > random, where a url or title counts when it is
\* non-empty, a timestamp when it is present (not None), the contents when the
\* list is non-empty, and the random fallback is used only when all four are absent.
C1_PriorityOrder ==
    rid_pc = "called" =>
        IF pr.url # None /\ pr.url[1] # ""
        THEN rid = pr.platform \o ":" \o pr.url[1]
        ELSE IF pr.title # None /\ pr.title[1] # ""
        THEN rid = pr.platform \o ":" \o pr.title[1]
        ELSE IF pr.timestamp # None
        THEN rid = pr.platform \o ":" \o ToString(pr.timestamp[1])
        ELSE IF Len(pr.contents) > 0
        THEN rid = pr.platform \o ":" \o ToString(Len(pr.contents))
        ELSE rid \in {pr.platform \o ":" \o u : u \in UuidHex}

\* C2: a download_file call whose last attempt failed with ZeroSizeException
\* (Content-Length: 0, or a zero-byte file after a complete write) raises
\* ZeroSizeException to its caller, and a call whose every response advertised
\* Content-Length: 0 has written no cache file larger than zero bytes.
C2_ZeroSizeRaised ==
    /\ (dl_pc = "raised" /\ dl_err.type = "ZeroSizeException") => dl_raised = "ZeroSizeException"
    /\ (dl_requests > 0 /\ dl_only_cl0) => dl_wrote = 0

\* C3: an exception escapes download_file only when all retries + 1 attempts
\* failed; it is DownloadLimitException exactly when the last attempt's failure
\* was a 429 response, and DownloadException otherwise.
C3_TerminalException ==
    /\ dl_pc = "raised" =>
          /\ dl_requests = dl_retries + 1
          /\ dl_err # NoExc
          /\ (dl_err.type = "ClientResponseError" /\ dl_err.status = 429)
                => dl_raised = "DownloadLimitException"
          /\ ~(dl_err.type = "ClientResponseError" /\ dl_err.status = 429)
                => dl_raised = "DownloadException"
    /\ dl_pc \in {"request", "body", "sleep", "returned"} => dl_raised = ""

C3_Witness ==
    /\ dl_pc = "raised"
    /\ dl_retries > 0
    /\ dl_raised = "DownloadLimitException"

\* C4 (state part): at most retries + 1 requests; the k-th sleep (k = 0..) lasts
\* 1 + k; one sleep per failed attempt except the last; a return follows the
\* first successful attempt.
C4_RetryInv ==
    /\ dl_requests <= dl_retries + 1
    /\ Len(dl_sleeps) <= dl_retries
    /\ \A k \in 0..(Len(dl_sleeps) - 1) : dl_sleeps[k + 1] = 1 + k
    /\ dl_pc = "request" => dl_requests = Len(dl_sleeps)
    /\ dl_pc = "body" => dl_requests = Len(dl_sleeps) + 1
    /\ dl_pc = "sleep" => dl_requests = Len(dl_sleeps)
    /\ dl_pc = "returned" => dl_requests = Len(dl_sleeps) + 1
    /\ dl_pc = "raised" => (dl_requests = dl_retries + 1 /\ Len(dl_sleeps) = dl_retries)

\* C4: for a retry count N >= 0 download_file makes at most N + 1 attempts,
\* stops at the first success, sleeps 1 + k after failed attempt k < N, does not
\* sleep after the last failed attempt, and every call ends with a returned
\* path or a raised exception.
C4_RetryPolicy ==
    /\ []C4_RetryInv
    /\ [][dl_pc = "returned" => dl_requests' = dl_requests]_vars
    /\ (dl_pc \in {"request", "body", "sleep"}) ~> (dl_pc \in {"returned", "raised"})

C4_Witness ==
    /\ dl_pc = "raised"
    /\ dl_retries = MaxRetries
    /\ dl_sleeps = [k \in 1..MaxRetries |-> k]

(* ---------------- the units of one delivery ---------------- *)
IsCard(u) == u.type = "image" /\ u.path[1] = "card"

IsContentUnit(u) == ~IsCard(u)

ContentSent == SelectSeq(sent, IsContentUnit)

CardCount == Cardinality({i \in 1..Len(sent) : IsCard(sent[i])})

\* the card occurs in the node list of forwarded unit u
CardInside(u) ==
    /\ u.type = "forward"
    /\ \E k \in 1..Len(u.node_list) :
          \E c \in 1..Len(u.node_list[k].content) : IsCard(u.node_list[k].content[c])

PlanMade == om_pc \in {"send_card", "build", "send"} \/ outcome = "delivered"

\* C5: force_merge is (number of contents > forward_threshold); a delivery
\* that completes has sent the content segments as exactly one forwarded node
\* list (one node per segment) when force_merge holds or there is more than one
\* segment, and otherwise each segment as a standalone unit; with threshold 5
\* and 6 contents force_merge holds and the contents are one forwarded unit.
C5_MergeRule ==
    /\ PlanMade => (plan.force_merge <=> Len(result.contents) > forward_threshold)
    /\ outcome = "delivered" =>
          LET n == Len(result.contents) IN
          IF plan.force_merge \/ n > 1
          THEN /\ Len(ContentSent) = 1
               /\ ContentSent[1].type = "forward"
               /\ Len(ContentSent[1].node_list) = n
          ELSE /\ Len(ContentSent) = n
               /\ \A k \in 1..n : ContentSent[k].type = "image"
    /\ (outcome = "delivered" /\ forward_threshold = 5 /\ Len(result.contents) = 6) =>
          /\ plan.force_merge
          /\ Cardinality({i \in 1..Len(sent) : sent[i].type = "forward"}) = 1

C5_Witness ==
    /\ outcome = "delivered"
    /\ Len(result.contents) = 6
    /\ plan.force_merge
    /\ Len(ContentSent) = 1
    /\ Len(ContentSent[1].node_list) = 6

\* C6 as claimed: every delivery that completes has sent the card as exactly
\* one standalone unit, before every content unit, and not inside a node list.
C6_CardAlwaysSent ==
    outcome = "delivered" =>
        /\ CardCount = 1
        /\ IsCard(sent[1])
        /\ \A i \in 1..Len(sent) : ~CardInside(sent[i])

\* C6 as amended: the card is sent at most once, only as the first unit of the
\* message and never inside a forwarded node list; when render_card returned a
\* path and the card's send did not raise, it is the first unit, before every
\* content unit; when render_card returned none, no card is sent.
C6_CardFirst ==
    /\ \A i \in 1..Len(sent) : IsCard(sent[i]) => i = 1
    /\ \A i \in 1..Len(sent) : ~CardInside(sent[i])
    /\ (card # None /\ (om_pc \in {"build", "send"} \/ outcome = "delivered")) =>
          (Len(sent) >= 1 /\ IsCard(sent[1]) /\ CardCount = 1)
    /\ (card = None \/ om_pc = "send_card") => CardCount = 0

C6_Witness ==
    /\ outcome = "delivered"
    /\ card # None
    /\ Len(sent) = 2
    /\ IsCard(sent[1])
    /\ sent[2].type = "forward"
    /\ Len(sent[2].node_list) >= 2

\* C7: render_card never raises (no exception on_message catches comes from it),
\* and after a failed render the delivery still sends every content segment.
C7_RenderContained ==
    /\ om_exc.src # "render_card"
    /\ (outcome = "delivered" /\ card = None) =>
          (Len(result.contents) > 0 => Len(ContentSent) > 0)

\* C8: when on_message caught an exception (extraction, download or transport
\* failure), no unit at all was sent for that message, and no text is surfaced.
C8_NothingSentOnFailure ==
    /\ outcome = "caught" => sent = << >>
    /\ \A i \in 1..Len(sent) : sent[i].type # "text"

\* C9: after terminate() the Downloader's session and the session of every
\* extractor instance the plugin made (those of parser_map included) are closed.
C9_AllSessionsClosed ==
    pl_life = "terminated" =>
        /\ dl_session # "open"
        /\ \A i \in Instances : psession[i] # "open"

\* C10: after _register_parser the table holds every key pattern, ordered by
\* non-increasing keyword length, and on_message examines a longer keyword's
\* entry before any shorter keyword's entry.
C10_LongestFirst ==
    /\ pl_life \in {"ready", "terminated"} =>
          /\ Len(key_pattern_list) = Len(Flatten(all_subclass))
          /\ \A i, j \in 1..Len(key_pattern_list) :
                i < j => Len(key_pattern_list[i].kw) >= Len(key_pattern_list[j].kw)
    /\ \A a, b \in 1..Len(examined) :
          Len(key_pattern_list[examined[a]].kw) > Len(key_pattern_list[examined[b]].kw)
              => a < b

\* the class registers "ab" before "abc", the text contains both keywords and
\* both patterns match it, and the entry of "abc" is the one that matched
C10_Witness ==
    /\ om_pc = "parse"
    /\ all_subclass[1] = ParserAb
    /\ keyword = <<"a", "b", "c">>
    /\ \E i, j \in 1..Len(key_pattern_list) :
          /\ i < j
          /\ key_pattern_list[i].kw = <<"a", "b", "c">>
          /\ key_pattern_list[j].kw = <<"a", "b">>
          /\ Contains(key_pattern_list[j].kw, msg_text)
          /\ Search(key_pattern_list[j].pat, msg_text)
          /\ Search(key_pattern_list[i].pat, msg_text)

\* the table entry at index i matches the text of the message
EntryMatches(i) ==
    /\ Contains(key_pattern_list[i].kw, msg_text)
    /\ Search(key_pattern_list[i].pat, msg_text)

Matched == om_pc \in {"parse", "render", "send_card", "build", "send"}
              \/ outcome \in {"delivered", "caught"}

\* C11: the loop examines the table in order; it searches the pattern only of
\* entries whose keyword is in the text; the match is the first entry whose
\* keyword is in the text and whose pattern is found, and no entry behind it is
\* examined; at most one extractor is invoked for a message, the one the matched
\* keyword maps to; with no matching entry nothing is parsed or sent.
C11_FirstMatchWins ==
    /\ \A k \in 1..Len(examined) : examined[k] = k
    /\ \A k \in 1..Len(searched) :
          /\ Contains(key_pattern_list[searched[k]].kw, msg_text)
          /\ \E e \in 1..Len(examined) : examined[e] = searched[k]
    /\ \A k \in 1..Len(examined) :
          Contains(key_pattern_list[k].kw, msg_text) => \E e \in 1..Len(searched) : searched[e] = k
    /\ Matched =>
          LET f == Len(examined) IN
          /\ f >= 1
          /\ EntryMatches(f)
          /\ \A i \in 1..(f - 1) : ~EntryMatches(i)
          /\ keyword = key_pattern_list[f].kw
    /\ Len(invoked) <= 1
    /\ \A k \in 1..Len(invoked) : invoked[k] = parser_map[keyword]
    /\ outcome = "no_match" =>
          /\ Len(examined) = Len(key_pattern_list)
          /\ \A i \in 1..Len(key_pattern_list) : ~EntryMatches(i)
          /\ invoked = << >>
          /\ result = NoResult
          /\ sent = << >>

\* an entry whose keyword is in the text failed its pattern, the next one
\* matched, and an entry behind the match would have matched too
C11_Witness ==
    /\ om_pc = "parse"
    /\ Len(searched) >= 2
    /\ Len(examined) < Len(key_pattern_list)
    /\ \E i \in (Len(examined) + 1)..Len(key_pattern_list) : EntryMatches(i)

\* C12: an image with width 120, height 240 and no aid attribute is an ad; an
\* image that has an aid attribute is never an ad, whatever its dimensions; an
\* image is kept only if none of the three ad signals fires.
C12_AdClassification ==
    ad_pc = "classified" =>
        /\ (img.aid = None /\ img.width = Some("120") /\ img.height = Some("240")) => is_ad
        /\ img.aid # None => ~is_ad
        /\ kept => (~AdByUrl(img_url) /\ ~AdByLink(img) /\ ~AdBySize(img, img_url))

\* C13: clean_keylol_text is idempotent: cleaning a cleaned text gives the
\* same text, for every text and every max_length.
C13_CleanIdempotent == ct_pc = "twice" => ct_twice = ct_once

RECURSIVE Joined(_)
\* the lines, one behind the other
Joined(lines) == IF lines = << >> THEN << >> ELSE Head(lines) \o Joined(Tail(lines))

\* C14: the lines _wrap_text returns, joined in order, are the text; a text
\* whose measured width exceeds max_width gives more than one line; and every
\* line that is followed by another one was committed because the next
\* character (the first of the following line) would have made its measured
\* width exceed max_width.
C14_WrapText ==
    wr_pc = "done" =>
        /\ Joined(wr_lines) = wr_text
        /\ Measure(wr_width, wr_text) > wr_max => Len(wr_lines) > 1
        /\ \A i \in 1..(Len(wr_lines) - 1) :
              Measure(wr_width, Append(wr_lines[i], wr_lines[i + 1][1])) > wr_max

\* a text wider than max_width that is split in three non-empty lines
C14_Witness ==
    /\ wr_pc = "done"
    /\ Measure(wr_width, wr_text) > wr_max
    /\ Len(wr_lines) = 3
    /\ \A i \in 1..3 : wr_lines[i] # << >>

\* no call so far has gone through get_session
NoGetYet == \A k \in 1..Len(ss_log) : ss_log[k] = "close"

\* this step is a call that goes through get_session
Got == Len(ss_log') = Len(ss_log) + 1 /\ ss_log'[Len(ss_log')] # "close"

\* C15: before the first get_session there is no session; every get_session
\* returns an open session; it is the session the previous get_session
\* returned as long as that one has not been closed; and once that one has
\* been closed it is a session that did not exist before.
C15_SessionLifecycle ==
    /\ [](NoGetYet => (ss_state = "none" /\ ss_id = 0))
    /\ [][Got =>
            /\ ss_state' = "open"
            /\ ss_ret' = ss_id' /\ ss_ret' >= 1 /\ ss_ret' \notin ss_closed'
            /\ (ss_ret # 0 /\ ss_ret \notin ss_closed) => ss_ret' = ss_ret
            /\ (ss_ret # 0 /\ ss_ret \in ss_closed) => ss_ret' > ss_id]_vars

\* a session was reused, closed, and replaced by a second one that was reused
C15_Witness ==
    /\ ss_log = <<"get_session", "download_file", "close", "download_file", "get_session">>
    /\ ss_ret = 2
    /\ ss_closed = {1}
    /\ ss_state = "open"

\* the units one behind the other: the contents of the nodes of a forwarded
\* node list, or the standalone units
Units(ss) ==
    IF Len(ss) = 1 /\ ss[1].type = "forward"
    THEN [k \in 1..Len(ss[1].node_list) |-> ss[1].node_list[k].content[1]]
    ELSE ss

\* the image unit of each of the first n contents, in the order of result.contents
UnitsOfContents(n) == [k \in 1..n |-> Image(MediaPath(k))]

C17_OwnBytes ==
    \A p \in Calls : cc_pc[p] = "returned" => cc_files[cc_name[p]] = Body(p)

====
